---- MODULE Spec2Model ----
(***************************************************************************)
(* Model of backend/lambda_function.py: the request handler of the        *)
(* academic chatbot (lambda_handler), its validator, prompt builder,      *)
(* Bedrock client and response envelope builder.                          *)
(***************************************************************************)
EXTENDS Integers, Sequences, FiniteSets, TLC

(***************************************************************************)
(* Python str values.  A string is a sequence of runs [c, n]: the text     *)
(* fragment c repeated n times.  User-supplied text is built from the      *)
(* one-character fragments " " and "a", so that its length is the sum of   *)
(* the run counts; a literal of the program is one run holding the whole   *)
(* literal.                                                                *)
(***************************************************************************)
Lit(s) == << [c |-> s, n |-> 1] >>

EmptyStr == << >>

\* str.isspace() of a one-character fragment
IsSpace(c) == c = " "

RECURSIVE StrLen(_)
\* len(s)
StrLen(s) == IF s = << >> THEN 0 ELSE Head(s).n + StrLen(Tail(s))

RECURSIVE LStrip(_)
LStrip(s) ==
    IF s = << >> THEN s
    ELSE IF IsSpace(Head(s).c) THEN LStrip(Tail(s)) ELSE s

RECURSIVE RStrip(_)
RStrip(s) ==
    IF s = << >> THEN s
    ELSE IF IsSpace(s[Len(s)].c) THEN RStrip(SubSeq(s, 1, Len(s) - 1)) ELSE s

\* str.strip(): leading and trailing whitespace removed
Strip(s) == RStrip(LStrip(s))

(***************************************************************************)
(* JSON values as Python holds them after json.loads.  A dict is the       *)
(* sequence of its items in insertion order, keys unique.                  *)
(***************************************************************************)
JNull == [t |-> "null"]
JBool(b) == [t |-> "bool", b |-> b]
JNum(n) == [t |-> "num", n |-> n]
JStr(s) == [t |-> "str", s |-> s]
JList(items) == [t |-> "list", items |-> items]
JDict(m) == [t |-> "dict", m |-> m]

EmptyDict == JDict(<< >>)

IsStr(v) == v.t = "str"
IsDict(v) == v.t = "dict"
IsList(v) == v.t = "list"

\* bool(v): None, False, 0, "", [] and {} are falsy
Truthy(v) ==
    CASE v.t = "null" -> FALSE
      [] v.t = "bool" -> v.b
      [] v.t = "num" -> v.n # 0
      [] v.t = "str" -> v.s # << >>
      [] v.t = "list" -> v.items # << >>
      [] v.t = "dict" -> v.m # << >>

HasKey(d, key) == \E i \in 1..Len(d.m) : d.m[i].k = key

\* d[key] of a dict that holds key
Item(d, key) == d.m[CHOOSE i \in 1..Len(d.m) : d.m[i].k = key].v

\* dict.get(key, default)
Get(d, key, default) == IF HasKey(d, key) THEN Item(d, key) ELSE default

\* d[key] = val: an existing key keeps its place
Put(m, key, val) ==
    IF \E i \in 1..Len(m) : m[i].k = key
    THEN [i \in 1..Len(m) |-> IF m[i].k = key THEN [k |-> key, v |-> val] ELSE m[i]]
    ELSE Append(m, [k |-> key, v |-> val])

(***************************************************************************)
(* JSON text: a sequence of tokens.  json.dumps writes it, json.loads      *)
(* reads it or raises JSONDecodeError.                                     *)
(***************************************************************************)
P(c) == [k |-> "p", p |-> c]
Tok(v) == [k |-> "lit", v |-> v]
Ws == [k |-> "ws"]
Junk == [k |-> "junk"]

IsP(t, c) == t.k = "p" /\ t.p = c
IsStrTok(t) == t.k = "lit" /\ t.v.t = "str"

RECURSIVE DumpsItems(_), DumpsMembers(_), Dumps(_)
\* json.dumps(v), with its default separators ", " and ": "
Dumps(v) ==
    CASE v.t = "list" -> << P("[") >> \o DumpsItems(v.items) \o << P("]") >>
      [] v.t = "dict" -> << P("{") >> \o DumpsMembers(v.m) \o << P("}") >>
      [] OTHER -> << Tok(v) >>

DumpsItems(items) ==
    IF items = << >> THEN << >>
    ELSE IF Len(items) = 1 THEN Dumps(items[1])
    ELSE Dumps(items[1]) \o << P(","), Ws >> \o DumpsItems(Tail(items))

DumpsMembers(m) ==
    IF m = << >> THEN << >>
    ELSE LET one == << Tok(JStr(m[1].k)), P(":"), Ws >> \o Dumps(m[1].v)
         IN  IF Len(m) = 1 THEN one
             ELSE one \o << P(","), Ws >> \o DumpsMembers(Tail(m))

ParseFail == [ok |-> FALSE]
ParseOk(v, next) == [ok |-> TRUE, val |-> v, next |-> next]

RECURSIVE ParseValue(_, _), ParseElems(_, _, _), ParseMembers(_, _, _)
\* the decoder's scan of one value starting at token i
ParseValue(toks, i) ==
    IF i > Len(toks) THEN ParseFail
    ELSE LET t == toks[i] IN
         IF t.k = "lit" THEN ParseOk(t.v, i + 1)
         ELSE IF IsP(t, "[") THEN
             IF i + 1 <= Len(toks) /\ IsP(toks[i + 1], "]")
             THEN ParseOk(JList(<< >>), i + 2)
             ELSE ParseElems(toks, i + 1, << >>)
         ELSE IF IsP(t, "{") THEN
             IF i + 1 <= Len(toks) /\ IsP(toks[i + 1], "}")
             THEN ParseOk(JDict(<< >>), i + 2)
             ELSE ParseMembers(toks, i + 1, << >>)
         ELSE ParseFail

ParseElems(toks, i, acc) ==
    LET r == ParseValue(toks, i) IN
    IF ~r.ok THEN ParseFail
    ELSE IF r.next > Len(toks) THEN ParseFail
    ELSE IF IsP(toks[r.next], ",") THEN ParseElems(toks, r.next + 1, Append(acc, r.val))
    ELSE IF IsP(toks[r.next], "]") THEN ParseOk(JList(Append(acc, r.val)), r.next + 1)
    ELSE ParseFail

ParseMembers(toks, i, acc) ==
    IF i + 1 > Len(toks) THEN ParseFail
    ELSE IF ~IsStrTok(toks[i]) \/ ~IsP(toks[i + 1], ":") THEN ParseFail
    ELSE LET r == ParseValue(toks, i + 2) IN
         IF ~r.ok THEN ParseFail
         ELSE IF r.next > Len(toks) THEN ParseFail
         ELSE LET m == Put(acc, toks[i].v.s, r.val) IN
              IF IsP(toks[r.next], ",") THEN ParseMembers(toks, r.next + 1, m)
              ELSE IF IsP(toks[r.next], "}") THEN ParseOk(JDict(m), r.next + 1)
              ELSE ParseFail

\* json.loads(text): the value, or ok = FALSE for JSONDecodeError
Loads(text) ==
    LET toks == SelectSeq(text, LAMBDA t : t.k # "ws")
        r == ParseValue(toks, 1)
    IN  IF r.ok /\ r.next = Len(toks) + 1
        THEN [ok |-> TRUE, val |-> r.val]
        ELSE [ok |-> FALSE]

(***************************************************************************)
(* Results of a Python call: a returned value or a raised exception.       *)
(***************************************************************************)
Return(v) == [kind |-> "return", v |-> v]
Raise(exc) == [kind |-> "raise", exc |-> exc]

(***************************************************************************)
(* Config: os.environ is a mapping from names to strings.                  *)
(***************************************************************************)
DefaultModelId == Lit("anthropic.claude-3-haiku-20240307-v1:0")

get_bedrock_model_id(environ) == Get(environ, Lit("BEDROCK_MODEL_ID"), JStr(DefaultModelId))

get_allowed_origins(environ) == Get(environ, Lit("ALLOWED_ORIGINS"), JStr(Lit("*")))

get_environment(environ) == Get(environ, Lit("ENVIRONMENT"), JStr(Lit("dev")))

Digits == {"0", "1", "2", "5"}

\* int(text) accepts a non-empty run of digits, and raises ValueError otherwise
IsIntText(s) == s # << >> /\ \A i \in 1..Len(s) : s[i].c \in Digits

DigitVal(c) == CASE c = "0" -> 0 [] c = "1" -> 1 [] c = "2" -> 2 [] c = "5" -> 5

RECURSIVE Pow10(_)
Pow10(n) == IF n = 0 THEN 1 ELSE 10 * Pow10(n - 1)

RECURSIVE Repeat(_, _)
\* the number written as the digit d repeated n times
Repeat(d, n) == IF n = 0 THEN 0 ELSE 10 * Repeat(d, n - 1) + d

RECURSIVE IntOf(_, _)
IntOf(s, acc) ==
    IF s = << >> THEN acc
    ELSE IntOf(Tail(s), acc * Pow10(Head(s).n) + Repeat(DigitVal(Head(s).c), Head(s).n))

get_max_tokens(environ) ==
    LET text == Get(environ, Lit("MAX_TOKENS"), JStr(<< [c |-> "1", n |-> 1], [c |-> "0", n |-> 3] >>)).s
    IN  IF IsIntText(text) THEN Return(JNum(IntOf(text, 0))) ELSE Raise("ValueError")

\* float(text) accepts digits with an optional fraction, and raises ValueError otherwise
IsFloatText(s) ==
    /\ s # << >>
    /\ \A i \in 1..Len(s) : s[i].c \in Digits \cup {"."}
    /\ Cardinality({i \in 1..Len(s) : s[i].c = "."}) <= 1
    /\ \A i \in 1..Len(s) : s[i].c = "." => s[i].n = 1
    /\ \E i \in 1..Len(s) : s[i].c \in Digits

get_temperature(environ) ==
    LET text == Get(environ, Lit("TEMPERATURE"),
                    JStr(<< [c |-> "0", n |-> 1], [c |-> ".", n |-> 1], [c |-> "5", n |-> 1] >>)).s
    IN  IF IsFloatText(text)
        THEN Return([t |-> "float", text |-> text])
        ELSE Raise("ValueError")

(***************************************************************************)
(* BedrockClient.generate_response.  reply is what client.invoke_model     *)
(* does with the request: it raises, or it returns a response whose body   *)
(* reads as the JSON text reply.v.                                         *)
(***************************************************************************)
FallbackText ==
    Lit("I apologize, but I couldn't generate a response. Please try again with a different question.")

\* the body handed to invoke_model, or the exception building it raises
RequestBody(environ, prompt) ==
    LET mt == get_max_tokens(environ)
        temp == get_temperature(environ)
    IN
    IF mt.kind = "raise" THEN mt
    ELSE IF temp.kind = "raise" THEN temp
    ELSE Return(JDict(<< [k |-> Lit("anthropic_version"), v |-> JStr(Lit("bedrock-2023-05-31"))],
                         [k |-> Lit("max_tokens"), v |-> mt.v],
                         [k |-> Lit("temperature"), v |-> temp.v],
                         [k |-> Lit("messages"),
                          v |-> JList(<< JDict(<< [k |-> Lit("role"), v |-> JStr(Lit("user"))],
                                                  [k |-> Lit("content"), v |-> JStr(prompt)] >>) >>)] >>))

\* response_body['content']
ContentOf(response_body) ==
    IF ~IsDict(response_body) THEN Raise("TypeError")
    ELSE IF ~HasKey(response_body, Lit("content")) THEN Raise("KeyError")
    ELSE Return(Item(response_body, Lit("content")))

\* FirstText taking the last element of the content list
LastText(content) ==
    IF IsDict(content) THEN Raise("KeyError")
    ELSE IF ~IsList(content) THEN Raise("TypeError")
    ELSE LET last == content.items[Len(content.items)] IN
         IF ~IsDict(last) THEN Raise("TypeError")
         ELSE IF ~HasKey(last, Lit("text")) THEN Raise("KeyError")
         ELSE Return(Item(last, Lit("text")))

\* content[0]['text'] of a truthy content
FirstText(content) ==
    IF IsDict(content) THEN Raise("KeyError")
    ELSE IF ~IsList(content) THEN Raise("TypeError")
    ELSE LET first == content.items[1] IN
         IF ~IsDict(first) THEN Raise("TypeError")
         ELSE IF ~HasKey(first, Lit("text")) THEN Raise("KeyError")
         ELSE Return(Item(first, Lit("text")))

\* lines 66-72: the reply decoded and its text extracted
ExtractText(payload) ==
    LET decoded == Loads(payload) IN
    IF ~decoded.ok THEN Raise("JSONDecodeError")
    ELSE LET content == ContentOf(decoded.val) IN
         IF content.kind = "raise" THEN content
         ELSE IF Truthy(content.v)
              THEN IF content.v.t \in {"str", "list", "dict"}
                   THEN FirstText(content.v)
                   ELSE Raise("TypeError")
              ELSE Return(JStr(FallbackText))

\* whether generate_response reaches client.invoke_model
Invokes(environ, prompt) == RequestBody(environ, prompt).kind = "return"

\* every exception is logged and raised again
generate_response(environ, prompt, reply) ==
    LET body == RequestBody(environ, prompt) IN
    IF body.kind = "raise" THEN body
    ELSE IF reply.kind = "raise" THEN reply
    ELSE ExtractText(reply.v)

(***************************************************************************)
(* AcademicChatbot                                                         *)
(***************************************************************************)
PromptHead == Lit("Human: You are an academic assistant ... Question: ")
PromptTail == Lit(" Please provide a comprehensive yet concise answer ... Assistant:")

create_prompt(user_message) == PromptHead \o user_message \o PromptTail

(***************************************************************************)
(* create_response                                                         *)
(***************************************************************************)
\* create_response answering any origin whatever is configured
create_response_wildcard(environ, status_code, body) ==
    [statusCode |-> status_code,
     headers |-> << [k |-> Lit("Content-Type"), v |-> JStr(Lit("application/json"))],
                    [k |-> Lit("Access-Control-Allow-Origin"), v |-> JStr(Lit("*"))],
                    [k |-> Lit("Access-Control-Allow-Methods"), v |-> JStr(Lit("POST, OPTIONS, GET"))],
                    [k |-> Lit("Access-Control-Allow-Headers"),
                     v |-> JStr(Lit("Content-Type,X-Amz-Date,Authorization,X-Api-Key,X-Amz-Security-Token"))],
                    [k |-> Lit("Access-Control-Allow-Credentials"), v |-> JStr(Lit("true"))] >>,
     body |-> Dumps(body)]

create_response(environ, status_code, body) ==
    [statusCode |-> status_code,
     headers |-> << [k |-> Lit("Content-Type"), v |-> JStr(Lit("application/json"))],
                    [k |-> Lit("Access-Control-Allow-Origin"), v |-> get_allowed_origins(environ)],
                    [k |-> Lit("Access-Control-Allow-Methods"), v |-> JStr(Lit("POST, OPTIONS, GET"))],
                    [k |-> Lit("Access-Control-Allow-Headers"),
                     v |-> JStr(Lit("Content-Type,X-Amz-Date,Authorization,X-Api-Key,X-Amz-Security-Token"))],
                    [k |-> Lit("Access-Control-Allow-Credentials"), v |-> JStr(Lit("true"))] >>,
     body |-> Dumps(body)]

(***************************************************************************)
(* validate_request                                                        *)
(***************************************************************************)
MessageKey == Lit("message")

MaxMessageLength == 1000

ErrorBody(msg) == JDict(<< [k |-> Lit("error"), v |-> JStr(msg)] >>)

\* body.get('message', '').strip(): AttributeError when body is no dict or
\* the message no str
StrippedMessage(body) ==
    IF ~IsDict(body) THEN Raise("AttributeError")
    ELSE LET m == Get(body, MessageKey, JStr(EmptyStr)) IN
         IF ~IsStr(m) THEN Raise("AttributeError") ELSE Return(Strip(m.s))

\* validate_request rejecting a message of exactly MaxMessageLength characters
validate_request_inclusive(body) ==
    IF ~Truthy(body) THEN Return(JStr(Lit("Request body is required")))
    ELSE LET user_message == StrippedMessage(body) IN
         IF user_message.kind = "raise" THEN user_message
         ELSE IF user_message.v = << >> THEN Return(JStr(Lit("Message is required")))
         ELSE IF StrLen(user_message.v) >= MaxMessageLength
              THEN Return(JStr(Lit("Message is too long. Maximum 1000 characters allowed.")))
         ELSE Return(JNull)

validate_request(body) ==
    IF ~Truthy(body) THEN Return(JStr(Lit("Request body is required")))
    ELSE LET user_message == StrippedMessage(body) IN
         IF user_message.kind = "raise" THEN user_message
         ELSE IF user_message.v = << >> THEN Return(JStr(Lit("Message is required")))
         ELSE IF StrLen(user_message.v) > MaxMessageLength
              THEN Return(JStr(Lit("Message is too long. Maximum 1000 characters allowed.")))
         ELSE Return(JNull)

(***************************************************************************)
(* lambda_handler                                                          *)
(***************************************************************************)
\* a str holding JSON text (the body of an API Gateway event)
JText(toks) == [t |-> "text", toks |-> toks]

\* IsPreflight comparing with the lower-case method name
IsPreflightLowercase(ev) == Get(ev, Lit("httpMethod"), JNull) = JStr(Lit("options"))

\* event.get('httpMethod') == 'OPTIONS'
IsPreflight(ev) == Get(ev, Lit("httpMethod"), JNull) = JStr(Lit("OPTIONS"))

\* 'body' in event and event['body']
HasBody(ev) ==
    /\ HasKey(ev, Lit("body"))
    /\ LET b == Item(ev, Lit("body")) IN
       IF b.t = "text" THEN b.toks # << >> ELSE Truthy(b)

\* lines 147-153: the body mapping, or JSONDecodeError
ParseBody(ev) ==
    IF HasBody(ev)
    THEN LET b == Item(ev, Lit("body")) IN
         IF b.t = "text"
         THEN LET r == Loads(b.toks) IN
              IF r.ok THEN Return(r.val) ELSE Raise("JSONDecodeError")
         ELSE Return(b)
    ELSE Return(EmptyDict)

\* UserMessage without the strip()
UserMessageRaw(body) ==
    IF ~IsDict(body) THEN Raise("AttributeError")
    ELSE LET m == Get(body, MessageKey, JStr(EmptyStr)) IN
         IF ~IsStr(m) THEN Raise("AttributeError") ELSE Return(m.s)

\* line 160
UserMessage(body) == StrippedMessage(body)

InternalErrorBody(environ) ==
    JDict(<< [k |-> Lit("error"), v |-> JStr(Lit("Internal server error"))],
             [k |-> Lit("environment"), v |-> get_environment(environ)] >>)

SuccessBody(environ, bot_response) ==
    JDict(<< [k |-> Lit("response"), v |-> bot_response],
             [k |-> Lit("environment"), v |-> get_environment(environ)],
             [k |-> Lit("model_used"), v |-> get_bedrock_model_id(environ)] >>)

\* Except without the catch-all clause: other exceptions leave the handler
ExceptNoCatchAll(environ, exc) ==
    IF exc = "JSONDecodeError"
    THEN Return(create_response(environ, 400, ErrorBody(Lit("Invalid JSON in request body"))))
    ELSE Raise(exc)

\* Except without the JSONDecodeError clause
ExceptInternalOnly(environ, exc) ==
    Return(create_response(environ, 500, InternalErrorBody(environ)))

\* the except clauses of lines 172-181: what the handler does with an
\* exception raised inside its try block
Except(environ, exc) ==
    IF exc = "JSONDecodeError"
    THEN Return(create_response(environ, 400, ErrorBody(Lit("Invalid JSON in request body"))))
    ELSE Return(create_response(environ, 500, InternalErrorBody(environ)))

(***************************************************************************)
(* Inputs                                                                  *)
(***************************************************************************)
MaxRuns == 3

Chars == {" ", "a"}

Counts == {1, MaxMessageLength, MaxMessageLength + 1}

Run == [c : Chars, n : Counts]

\* the texts of at most MaxRuns runs, adjacent runs of different characters
Messages ==
    UNION {{s \in [1..len -> Run] : \A i \in 1..(len - 1) : s[i].c # s[i + 1].c} : len \in 0..MaxRuns}

MessageValues ==
    {JStr(s) : s \in Messages} \cup {JNull, JNum(5), JList(<< >>)}

ExtraField == [k |-> Lit("session"), v |-> JNum(1)]

BodyMappings ==
    {JDict(<< >>), JDict(<< ExtraField >>)}
    \cup {JDict(<< [k |-> MessageKey, v |-> m] >>) : m \in MessageValues}
    \cup {JDict(<< [k |-> MessageKey, v |-> m], ExtraField >>) : m \in MessageValues}

OtherBodies ==
    {JNull, JBool(TRUE), JBool(FALSE), JNum(0), JNum(5), JList(<< >>), JList(<< JNum(1), JNum(5) >>)}

DropAt(seq, i) == SubSeq(seq, 1, i - 1) \o SubSeq(seq, i + 1, Len(seq))

\* the mappings whose text is also sent damaged
SampleMappings ==
    {JDict(<< >>), JDict(<< ExtraField >>),
     JDict(<< [k |-> MessageKey, v |-> JStr(<< [c |-> "a", n |-> 1] >>)] >>),
     JDict(<< [k |-> MessageKey, v |-> JStr(<< >>)], ExtraField >>),
     JList(<< JNum(1), JNum(5) >>)}

\* JSON texts: what json.dumps writes, some of it with one token lost, and
\* texts that are no JSON at all
BodyTexts ==
    LET good == {Dumps(v) : v \in BodyMappings \cup OtherBodies \cup {JStr(Lit("hello")), JStr(EmptyStr)}}
        sample == {Dumps(v) : v \in SampleMappings}
    IN  good
        \cup {DropAt(t, i) : <<t, i>> \in UNION {{<<t, i>> : i \in 1..Len(t)} : t \in sample}}
        \cup {<< >>, << Ws >>, << Junk, Ws, Junk >>}

Bodies == {JText(t) : t \in BodyTexts} \cup BodyMappings \cup OtherBodies

Methods == {JStr(Lit("OPTIONS")), JStr(Lit("POST")), JStr(Lit("GET"))}

Events ==
    {JDict(<< >>)}
    \cup {JDict(<< [k |-> Lit("httpMethod"), v |-> m] >>) : m \in Methods}
    \cup {JDict(<< [k |-> Lit("body"), v |-> b] >>) : b \in Bodies}
    \cup {JDict(<< [k |-> Lit("httpMethod"), v |-> m[1]], [k |-> Lit("body"), v |-> m[2]] >>) :
            m \in Methods \X Bodies}

Var(name, text) == [k |-> Lit(name), v |-> JStr(text)]

\* os.environ: nothing set, the settings of scripts/test_lambda.py, a
\* deployment's settings, and a number that does not parse
Environs ==
    {JDict(<< >>),
     JDict(<< Var("AWS_REGION", Lit("us-east-1")),
              Var("BEDROCK_MODEL_ID", DefaultModelId),
              Var("MAX_TOKENS", << [c |-> "1", n |-> 1], [c |-> "0", n |-> 3] >>),
              Var("TEMPERATURE", << [c |-> "0", n |-> 1], [c |-> ".", n |-> 1], [c |-> "5", n |-> 1] >>),
              Var("ALLOWED_ORIGINS", Lit("*")),
              Var("ENVIRONMENT", Lit("test")) >>),
     JDict(<< Var("BEDROCK_MODEL_ID", Lit("model-b")),
              Var("MAX_TOKENS", << [c |-> "2", n |-> 1], [c |-> "0", n |-> 2] >>),
              Var("TEMPERATURE", << [c |-> "1", n |-> 1] >>),
              Var("ALLOWED_ORIGINS", Lit("https://campus.example")),
              Var("ENVIRONMENT", Lit("prod")) >>),
     JDict(<< Var("MAX_TOKENS", Lit("many")) >>),
     JDict(<< Var("TEMPERATURE", Lit("hot")) >>)}

TextItem(text) == JDict(<< [k |-> Lit("type"), v |-> JStr(Lit("text"))], [k |-> Lit("text"), v |-> text] >>)

ContentPayload(content) ==
    JDict(<< [k |-> Lit("id"), v |-> JStr(Lit("msg_1"))], [k |-> Lit("content"), v |-> content] >>)

\* what the endpoint may answer: well-formed payloads, payloads of another
\* shape, and bodies that are no JSON
ReplyPayloads ==
    LET good == {ContentPayload(JList(<< TextItem(JStr(Lit("Photosynthesis is..."))) >>)),
                 ContentPayload(JList(<< TextItem(JStr(Lit("first"))), TextItem(JStr(Lit("second"))) >>)),
                 ContentPayload(JList(<< >>)),
                 ContentPayload(JNull),
                 ContentPayload(JNum(5)),
                 ContentPayload(JList(<< JDict(<< >>) >>)),
                 ContentPayload(JList(<< JStr(Lit("first")) >>)),
                 ContentPayload(JDict(<< [k |-> Lit("text"), v |-> JStr(Lit("first"))] >>)),
                 JDict(<< [k |-> Lit("message"), v |-> JStr(Lit("Too many requests"))] >>),
                 JList(<< TextItem(JStr(Lit("first"))) >>)}
    IN  {Dumps(v) : v \in good}
        \cup {DropAt(Dumps(ContentPayload(JList(<< >>))), 1), << >>, << Junk >>}

Replies ==
    {Raise(e) : e \in {"ClientError", "ReadTimeoutError"}}
    \cup {Return(p) : p \in ReplyPayloads}

(***************************************************************************)
(* State                                                                   *)
(***************************************************************************)
VARIABLES
    environ,        \* os.environ of the process
    pc,             \* where the invocation is: idle, start, validate, process, done
    event,          \* the event of the invocation
    body,           \* lambda_handler's local body
    validation_error, \* lambda_handler's local validation_error
    reply,          \* what invoke_model did in this invocation
    calls,          \* the requests handed to invoke_model in this invocation
    generated,      \* what generate_response returned or raised
    steps,          \* the stages the invocation went through
    envelopes,      \* the envelopes create_response built in this invocation
    result          \* how lambda_handler ended: an envelope returned, or an exception raised

vars == <<environ, pc, event, body, validation_error, reply, calls, generated, steps, envelopes, result>>

None == [t |-> "none"]
NoResult == [kind |-> "none"]

Init ==
    /\ environ \in Environs
    /\ pc = "idle"
    /\ event = None
    /\ body = None
    /\ validation_error = NoResult
    /\ reply = NoResult
    /\ calls = << >>
    /\ generated = NoResult
    /\ steps = << >>
    /\ envelopes = << >>
    /\ result = NoResult

\* the runtime calls lambda_handler(event, context)
\* (line 139 logs json.dumps(event) outside the try block; an event the
\* runtime decoded from JSON always serialises, so the log cannot raise)
Receive ==
    /\ pc = "idle"
    /\ pc' = "start"
    /\ event' \in Events
    /\ body' = None
    /\ validation_error' = NoResult
    /\ reply' = NoResult
    /\ calls' = << >>
    /\ generated' = NoResult
    /\ steps' = << >>
    /\ envelopes' = << >>
    /\ result' = NoResult
    /\ UNCHANGED environ

\* the handler ends with r: an envelope returned, or an exception left to the runtime
Finish(r) ==
    /\ pc' = "done"
    /\ result' = r
    /\ envelopes' = IF r.kind = "return" THEN Append(envelopes, r.v) ELSE envelopes

\* lines 143-144
Preflight ==
    /\ pc = "start"
    /\ IsPreflight(event)
    /\ steps' = Append(steps, "preflight")
    /\ Finish(Return(create_response(environ, 200, EmptyDict)))
    /\ UNCHANGED <<environ, event, body, validation_error, reply, calls, generated>>

\* lines 146-153
Parse ==
    /\ pc = "start"
    /\ ~IsPreflight(event)
    /\ steps' = Append(steps, "parse")
    /\ LET r == ParseBody(event) IN
       IF r.kind = "raise"
       THEN Finish(Except(environ, r.exc)) /\ UNCHANGED body
       ELSE body' = r.v /\ pc' = "validate" /\ UNCHANGED <<result, envelopes>>
    /\ UNCHANGED <<environ, event, validation_error, reply, calls, generated>>

\* Validate going on to the chatbot whatever the validator said
ValidateIgnoresError ==
    /\ pc = "validate"
    /\ steps' = Append(steps, "validate")
    /\ LET verdict == validate_request(body) IN
       /\ validation_error' = verdict
       /\ IF verdict.kind = "raise"
          THEN Finish(Except(environ, verdict.exc))
          ELSE pc' = "process" /\ UNCHANGED <<result, envelopes>>
    /\ UNCHANGED <<environ, event, body, reply, calls, generated>>

\* lines 155-158
Validate ==
    /\ pc = "validate"
    /\ steps' = Append(steps, "validate")
    /\ LET verdict == validate_request(body) IN
       /\ validation_error' = verdict
       /\ IF verdict.kind = "raise"
          THEN Finish(Except(environ, verdict.exc))
          ELSE IF Truthy(verdict.v)
               THEN Finish(Return(create_response(environ, 400, ErrorBody(verdict.v.s))))
               ELSE pc' = "process" /\ UNCHANGED <<result, envelopes>>
    /\ UNCHANGED <<environ, event, body, reply, calls, generated>>

\* lines 160-170: the message, the prompt, the call and the success envelope
Process ==
    /\ pc = "process"
    /\ steps' = Append(steps, "process")
    /\ \E rp \in Replies :
       LET user_message == UserMessage(body) IN
       IF user_message.kind = "raise"
       THEN /\ Finish(Except(environ, user_message.exc))
            /\ UNCHANGED <<reply, calls, generated>>
       ELSE LET prompt == create_prompt(user_message.v)
                bot_response == generate_response(environ, prompt, rp)
            IN  /\ generated' = bot_response
                /\ IF Invokes(environ, prompt)
                   THEN /\ reply' = rp
                        /\ calls' = Append(calls, [modelId |-> get_bedrock_model_id(environ),
                                                   body |-> Dumps(RequestBody(environ, prompt).v)])
                   ELSE UNCHANGED <<reply, calls>>
                /\ IF bot_response.kind = "raise"
                   THEN Finish(Except(environ, bot_response.exc))
                   ELSE Finish(Return(create_response(environ, 200, SuccessBody(environ, bot_response.v))))
    /\ UNCHANGED <<environ, event, body, validation_error>>

\* the runtime takes the result; the process waits for the next event
Complete ==
    /\ pc = "done"
    /\ pc' = "idle"
    /\ event' = None
    /\ body' = None
    /\ validation_error' = NoResult
    /\ reply' = NoResult
    /\ calls' = << >>
    /\ generated' = NoResult
    /\ steps' = << >>
    /\ envelopes' = << >>
    /\ result' = NoResult
    /\ UNCHANGED environ

Next ==
    \/ Receive
    \/ Preflight
    \/ Parse
    \/ Validate
    \/ Process
    \/ Complete

Spec == Init /\ [][Next]_vars

(***************************************************************************)
(* Properties                                                              *)
(***************************************************************************)
Ran(stage) == \E i \in 1..Len(steps) : steps[i] = stage

Returned == pc = "done" /\ result.kind = "return"

Status == result.v.statusCode

\* the envelope's body read back as JSON
Decoded == Loads(result.v.body)

BodyIs(v) == Decoded.ok /\ Decoded.val = v

Method(ev) == IF HasKey(ev, Lit("httpMethod")) THEN Item(ev, Lit("httpMethod")) ELSE JNull

IsOptions(ev) == Method(ev) = JStr(Lit("OPTIONS"))

\* the event's body is a str of JSON text
TextBody(ev) == HasKey(ev, Lit("body")) /\ Item(ev, Lit("body")).t = "text"

\* s without its leading and trailing whitespace, by position
Trimmed(s) ==
    LET solid == {i \in 1..Len(s) : s[i].c # " "} IN
    IF solid = {} THEN << >>
    ELSE SubSeq(s, CHOOSE i \in solid : \A j \in solid : i <= j,
                   CHOOSE i \in solid : \A j \in solid : j <= i)

\* the raw message of a body mapping, "" when it has none
RawMessage(b) == IF HasKey(b, MessageKey) THEN Item(b, MessageKey).s ELSE << >>

\* a mapping whose message, if any, is a string
StringMessageMapping(b) ==
    b.t = "dict" /\ (HasKey(b, MessageKey) => Item(b, MessageKey).t = "str")

FixedHeaders(origin) ==
    << [k |-> Lit("Content-Type"), v |-> JStr(Lit("application/json"))],
       [k |-> Lit("Access-Control-Allow-Origin"), v |-> origin],
       [k |-> Lit("Access-Control-Allow-Methods"), v |-> JStr(Lit("POST, OPTIONS, GET"))],
       [k |-> Lit("Access-Control-Allow-Headers"),
        v |-> JStr(Lit("Content-Type,X-Amz-Date,Authorization,X-Api-Key,X-Amz-Security-Token"))],
       [k |-> Lit("Access-Control-Allow-Credentials"), v |-> JStr(Lit("true"))] >>

ConfiguredOrigin ==
    IF HasKey(environ, Lit("ALLOWED_ORIGINS")) THEN Item(environ, Lit("ALLOWED_ORIGINS")) ELSE JStr(Lit("*"))

ConfiguredEnvironment ==
    IF HasKey(environ, Lit("ENVIRONMENT")) THEN Item(environ, Lit("ENVIRONMENT")) ELSE JStr(Lit("dev"))

ConfiguredModel ==
    IF HasKey(environ, Lit("BEDROCK_MODEL_ID")) THEN Item(environ, Lit("BEDROCK_MODEL_ID"))
    ELSE JStr(Lit("anthropic.claude-3-haiku-20240307-v1:0"))

InternalError ==
    JDict(<< [k |-> Lit("error"), v |-> JStr(Lit("Internal server error"))],
             [k |-> Lit("environment"), v |-> ConfiguredEnvironment] >>)

\* C1: whatever the event and whatever the inference call does, an invocation
\* of lambda_handler ends within three stages, builds no envelope before it
\* ends, and ends by returning the one envelope create_response built, with
\* status 200, 400 or 500; no exception leaves the handler.
C1_OneEnvelope ==
    /\ pc \in {"start", "validate", "process"} =>
          /\ Len(steps) < 3
          /\ envelopes = << >>
          /\ result = NoResult
    /\ pc = "done" =>
          /\ result.kind = "return"
          /\ envelopes = << result.v >>
          /\ result.v.statusCode \in {200, 400, 500}
          /\ Len(steps) \in 1..3

\* an invocation that ended in the catch-all clause after the endpoint raised
C1_Witness ==
    /\ Returned
    /\ Status = 500
    /\ reply.kind = "raise"
    /\ steps = << "parse", "validate", "process" >>

\* C2: once the request passed validation, any failure of the inference call
\* (the call raising, or its payload not decoding or not holding the text)
\* ends in status 500 with body {error: "Internal server error", environment}.
C2_InferenceFailureIs500 ==
    (pc = "done" /\ validation_error = Return(JNull) /\ reply # NoResult /\ generated.kind = "raise")
        => (result.kind = "return" /\ Status = 500 /\ BodyIs(InternalError))

\* C3: a non-OPTIONS event whose body is a non-empty string that is no JSON
\* ends in status 400 with body {error: "Invalid JSON in request body"},
\* having run neither the validator nor the inference call.
C3_MalformedJsonIs400 ==
    (pc = "done" /\ ~IsOptions(event) /\ TextBody(event)
        /\ Item(event, Lit("body")).toks # << >> /\ ~Loads(Item(event, Lit("body")).toks).ok)
        => /\ result.kind = "return"
           /\ Status = 400
           /\ BodyIs(JDict(<< [k |-> Lit("error"), v |-> JStr(Lit("Invalid JSON in request body"))] >>))
           /\ steps = << "parse" >>
           /\ validation_error = NoResult
           /\ calls = << >>

\* the body "invalid json" of scripts/test_lambda.py, answered
C3_Witness ==
    /\ Returned
    /\ TextBody(event)
    /\ Item(event, Lit("body")).toks = << Junk, Ws, Junk >>
    /\ Status = 400

\* C4: when the validator returns an error message, the handler returns
\* status 400 with body {error: that message} and does not call the
\* inference endpoint; the body {"message": ""} gets "Message is required".
C4_ValidationErrorIs400 ==
    /\ (pc = "done" /\ validation_error.kind = "return" /\ validation_error.v.t = "str")
          => /\ result.kind = "return"
             /\ Status = 400
             /\ BodyIs(JDict(<< [k |-> Lit("error"), v |-> validation_error.v] >>))
             /\ ~Ran("process")
             /\ calls = << >>
    /\ (pc = "done" /\ body = JDict(<< [k |-> Lit("message"), v |-> JStr(<< >>)] >>))
          => /\ Status = 400
             /\ BodyIs(JDict(<< [k |-> Lit("error"), v |-> JStr(Lit("Message is required"))] >>))
             /\ calls = << >>

\* the body {"message": ""} of scripts/test_lambda.py, answered
C4_Witness ==
    /\ Returned
    /\ TextBody(event)
    /\ body = JDict(<< [k |-> Lit("message"), v |-> JStr(<< >>)] >>)
    /\ Status = 400

C6_PreflightIs200 ==
    (pc # "idle" /\ IsOptions(event)) =>
        /\ body = None
        /\ validation_error = NoResult
        /\ calls = << >>
        /\ pc \in {"start", "done"}
        /\ pc = "done" =>
              /\ result.kind = "return"
              /\ Status = 200
              /\ BodyIs(JDict(<< >>))
              /\ steps = << "preflight" >>

\* an OPTIONS event with a malformed body, answered
C6_Witness ==
    /\ Returned
    /\ IsOptions(event)
    /\ TextBody(event)
    /\ ~Loads(Item(event, Lit("body")).toks).ok
    /\ Status = 200

\* the content list of the endpoint's payload
ReplyContent == Item(Loads(reply.v).val, Lit("content"))

\* C7: when generate_response returns, the handler returns status 200 with
\* body {response, environment, model_used}: environment and model_used as
\* configured, and response the text of the first element of the payload's
\* content list, or the fallback apology when that list is empty.
C7_SuccessIs200 ==
    (pc = "done" /\ generated.kind = "return") =>
        /\ result.kind = "return"
        /\ Status = 200
        /\ Decoded.ok
        /\ Decoded.val.t = "dict"
        /\ [i \in 1..Len(Decoded.val.m) |-> Decoded.val.m[i].k]
              = << Lit("response"), Lit("environment"), Lit("model_used") >>
        /\ Item(Decoded.val, Lit("environment")) = ConfiguredEnvironment
        /\ Item(Decoded.val, Lit("model_used")) = ConfiguredModel
        /\ ReplyContent.t = "list" =>
              Item(Decoded.val, Lit("response")) =
                  IF ReplyContent.items = << >>
                  THEN JStr(Lit("I apologize, but I couldn't generate a response. Please try again with a different question."))
                  ELSE Item(ReplyContent.items[1], Lit("text"))

\* an empty content list answered with the fallback text and status 200
C7_Witness ==
    /\ Returned
    /\ generated.kind = "return"
    /\ ReplyContent = JList(<< >>)
    /\ Status = 200
    /\ Item(Decoded.val, Lit("response")).s = FallbackText

\* C8: every envelope lambda_handler builds or returns carries the same five
\* headers, Access-Control-Allow-Origin being the configured origin
\* (ALLOWED_ORIGINS, "*" when unset).
C8_UniformHeaders ==
    /\ \A i \in 1..Len(envelopes) : envelopes[i].headers = FixedHeaders(ConfiguredOrigin)
    /\ result.kind = "return" => result.v.headers = FixedHeaders(ConfiguredOrigin)

\* a 500 envelope under an origin other than the default
C8_Witness ==
    /\ Returned
    /\ Status = 500
    /\ HasKey(environ, Lit("ALLOWED_ORIGINS"))
    /\ ConfiguredOrigin # JStr(Lit("*"))

\* C9: a 500 envelope is returned only by a request that passed validation
\* and failed in the prompt or inference stage; a request rejected earlier
\* gets a 400.
C9_Only500AfterValidation ==
    (pc = "done" /\ result.kind = "return" /\ Status = 500)
        => (validation_error = Return(JNull) /\ Ran("process"))

\* the prompt of a request handed to invoke_model
PromptOf(call) ==
    Item(Item(Loads(call.body).val, Lit("messages")).items[1], Lit("content")).s

\* C10: an invocation calls the inference endpoint at most once, only after
\* the validator accepted the body, with the template around the trimmed
\* message; when the call raises, generate_response raises the same
\* exception, and no second call and no fallback text follow.
C10_SingleCall ==
    /\ Len(calls) <= 1
    /\ calls # << >> =>
          /\ steps = << "parse", "validate", "process" >>
          /\ validation_error = Return(JNull)
          /\ PromptOf(calls[1]) = PromptHead \o Trimmed(RawMessage(body)) \o PromptTail
    /\ (reply # NoResult /\ reply.kind = "raise") =>
          /\ generated = reply
          /\ Len(calls) = 1
          /\ result.kind = "return" => ~(Decoded.ok /\ Decoded.val.t = "dict" /\ HasKey(Decoded.val, Lit("response")))

\* a message with leading whitespace whose one call raised
C10_Witness ==
    /\ pc = "done"
    /\ calls # << >>
    /\ reply.kind = "raise"
    /\ RawMessage(body) # << >>
    /\ RawMessage(body)[1].c = " "
====
